---- MODULE Spec2Model ----
(***************************************************************************)
(* mini-jotai: the atom factory (src/atom.ts), the Store class             *)
(* (src/store.ts) and the default-store accessor (src/Provider.tsx), as a  *)
(* state machine driven by a client that creates atoms and calls the store *)
(* API.                                                                    *)
(*                                                                         *)
(* In this repository every method of Store that the API documents -       *)
(* the constructor, get, set and subscribe - has a body that consists of   *)
(* one `throw new Error('... not implemented yet')`.  The bodies do not    *)
(* touch `this`, the two WeakMap fields are declared and never assigned,   *)
(* and AtomState declares no field: no Store instance and no cell record   *)
(* ever exists.  The state of the program is therefore the atoms the       *)
(* factory has returned, the module variable defaultStore, and what the    *)
(* client observed of each call: its outcome and how often the call ran    *)
(* an atom's read function or a listener.                                  *)
(***************************************************************************)
EXTENDS Integers, Sequences, FiniteSets, TLC

MaxAtoms == 4
MaxCalls == 3
MaxListeners == 2
MaxVal == 1

AtomIds == 1..MaxAtoms
Listeners == 1..MaxListeners

(***************************************************************************)
(* JavaScript values.  `typeof v === "function"` is v.tag = "function"; a  *)
(* function is known by its name.                                          *)
(***************************************************************************)
Undefined == [tag |-> "undefined", n |-> 0, name |-> ""]
Num(v) == [tag |-> "number", n |-> v, name |-> ""]
Fn(f) == [tag |-> "function", n |-> 0, name |-> f]

IsFunction(v) == v.tag = "function"

\* JavaScript truthiness of the values above, as `if (write)` tests it.
Truthy(v) ==
    CASE v.tag = "undefined" -> FALSE
      [] v.tag = "null" -> FALSE
      [] v.tag = "number" -> v.n # 0
      [] OTHER -> TRUE

(***************************************************************************)
(* The read functions the client passes to atom(): the closures of the     *)
(* repository's examples.  Each reads atoms the client created before it,  *)
(* named here by their position in creation order.                         *)
(*   double: (get) => get(a1) * 2                                          *)
(*   quad:   (get) => get(a2) * 2                                          *)
(*   sum:    (get) => get(a1) + get(a2)                                    *)
(*   cond:   (get) => get(a1) ? get(a2) : get(a3)                          *)
(* and read functions that throw or close a cycle, for the error paths:    *)
(*   boom:   () => { throw new Error('boom') }                             *)
(*   boomIf: (get) => { if (get(a1)) throw new Error('boom'); return 0 }   *)
(*   gate:   (get) => get(a1) ? get(a3) : 0                                *)
(* gate names a3 before a3 exists, as a closure may; with a3 = quad, or    *)
(* with gate itself as a3, it reads a cell that depends on it once a1 is   *)
(* truthy.                                                                 *)
(***************************************************************************)
ReadFns == {"double", "quad", "sum", "cond"}

HardReadFns == {"boom", "boomIf", "gate", "double", "quad"}

\* The atom that gate's closure names before it is created.
GateTarget == 3

\* The atoms that cond's closure names flag, a and b.
CondFlag == 1
CondThen == 2
CondElse == 3

FnRefs(f) ==
    CASE f = "double" -> {1}
      [] f = "quad" -> {2}
      [] f = "sum" -> {1, 2}
      [] f = "cond" -> {CondFlag, CondThen, CondElse}
      [] f = "boomIf" -> {1}
      [] f = "gate" -> {1, GateTarget}
      [] OTHER -> {}

\* The atoms a read function names that need not exist when it is passed.
ForwardRefs(f) == IF f = "gate" THEN {GateTarget} ELSE {}

\* A read function run with the getter get (atom |-> number): what it returns.
ReadFn(f, get) ==
    CASE f = "double" -> get[1] * 2
      [] f = "quad" -> get[2] * 2
      [] f = "sum" -> get[1] + get[2]
      [] f = "cond" -> IF get[CondFlag] # 0 THEN get[CondThen] ELSE get[CondElse]
      [] f = "gate" -> IF get[1] # 0 THEN get[GateTarget] ELSE 0
      [] OTHER -> 0

\* Whether that run throws instead of returning.
ReadFnThrows(f, get) ==
    CASE f = "boom" -> TRUE
      [] f = "boomIf" -> get[1] # 0
      [] OTHER -> FALSE

\* The message of the Error that boom, boomIf and writeThenThrow throw.
Boom == "boom"

\* The atoms a read function passes to the getter in that run.
ReadFnReads(f, get) ==
    CASE f = "cond" ->
            {CondFlag} \cup (IF get[CondFlag] # 0 THEN {CondThen} ELSE {CondElse})
      [] f = "gate" -> {1} \cup (IF get[1] # 0 THEN {GateTarget} ELSE {})
      [] OTHER -> FnRefs(f)

\* The write function of a writable derived atom:
\* (get, set, v) => { set(a1, v); set(a2, v) }
WriteFns == {"writeBoth"}

\* Write functions that throw after a nested write, or read after it:
\*   writeThenThrow: (get, set, v) => { set(a1, v); throw new Error('boom') }
\*   writeThenRead:  (get, set, v) => { set(a1, v); return get(a2) }
HardWriteFns == {"writeThenThrow", "writeThenRead"}

WriteRefs(f) ==
    CASE f = "writeBoth" -> {1, 2}
      [] f = "writeThenThrow" -> {1}
      [] f = "writeThenRead" -> {1, 2}
      [] OTHER -> {}

\* The atoms a write function passes to the setter, each with its argument v.
WriteFnWrites(f) ==
    CASE f = "writeBoth" -> {1, 2}
      [] f \in HardWriteFns -> {1}
      [] OTHER -> {}

WriteFnThrows(f) == f = "writeThenThrow"

(***************************************************************************)
(* atom(read, write): the descriptor the factory returns.  A field the     *)
(* code never assigns is absent: hasInit is `'init' in config`, hasWrite   *)
(* is `'write' in config`.                                                 *)
(***************************************************************************)
defaultRead == Fn("defaultRead")
defaultWrite == Fn("defaultWrite")

\* The updater function a client passes to set: (c) => c + 1
UpdaterFns == {"inc"}

UpdaterFn(f, prev) == IF f = "inc" THEN prev + 1 ELSE prev

\* defaultWrite: the value it passes on to set(this, ...),
\* typeof arg === "function" ? arg(get(this)) : arg
defaultWriteValue(arg, current) ==
    IF IsFunction(arg) THEN Num(UpdaterFn(arg.name, current.n)) ELSE arg

\* atom() with the primitive branch leaving out `config.write = defaultWrite`.
atomWithoutDefaultWrite(read, write) ==
    LET config ==
            IF IsFunction(read)
            THEN [hasInit |-> FALSE, init |-> Undefined, read |-> read,
                  hasWrite |-> FALSE, write |-> Undefined]
            ELSE [hasInit |-> TRUE, init |-> read, read |-> defaultRead,
                  hasWrite |-> FALSE, write |-> Undefined]
    IN  IF Truthy(write)
        THEN [config EXCEPT !.hasWrite = TRUE, !.write = write]
        ELSE config

atom(read, write) ==
    LET config ==
            IF IsFunction(read)
            THEN [hasInit |-> FALSE, init |-> Undefined, read |-> read,
                  hasWrite |-> FALSE, write |-> Undefined]
            ELSE [hasInit |-> TRUE, init |-> read, read |-> defaultRead,
                  hasWrite |-> TRUE, write |-> defaultWrite]
    IN  IF Truthy(write)
        THEN [config EXCEPT !.hasWrite = TRUE, !.write = write]
        ELSE config

(***************************************************************************)
(* What a call did, as its caller sees it: it returned a value or threw,   *)
(* and it ran read functions and listeners on the way.                     *)
(***************************************************************************)
Returned(v) == [status |-> "returned", value |-> v, error |-> ""]
Threw(msg) == [status |-> "threw", value |-> Undefined, error |-> msg]

NoReads == [i \in AtomIds |-> 0]
NoNotified == [l \in Listeners |-> 0]

Effect(outcome) == [outcome |-> outcome, reads |-> NoReads, notified |-> NoNotified]

\* constructor() { throw new Error('Store constructor not implemented yet') }
StoreConstructor == Effect(Threw("Store constructor not implemented yet"))

\* createStore() { return new Store() }
createStore == StoreConstructor

\* A call that never comes back to its caller.
Diverged == [status |-> "diverges", value |-> Undefined, error |-> ""]

\* A get that runs the atom's read function, also a primitive atom's
\* defaultRead, before it throws.
StoreGetThroughRead(a) ==
    [outcome |-> Threw("Store.get() not implemented yet"),
     reads |-> [NoReads EXCEPT ![a] = 1], notified |-> NoNotified]

\* A get that follows the reads of compute functions with no guard against
\* a cell that is already being computed.
StoreGetUnguarded(a) == Effect(Diverged)

\* get(atom) { throw new Error('Store.get() not implemented yet') }
StoreGet(a) == Effect(Threw("Store.get() not implemented yet"))

\* set(atom, ...args) { throw new Error('Store.set() not implemented yet') }
StoreSet(a, arg) == Effect(Threw("Store.set() not implemented yet"))

\* subscribe(atom, listener) { throw new Error('Store.subscribe() not implemented yet') }
StoreSubscribe(a, l) == Effect(Threw("Store.subscribe() not implemented yet"))

VARIABLES
    atoms,          \* the descriptors atom() has returned, in creation order
    defaultStore,   \* Provider.tsx: let defaultStore: Store | null = null
    calls           \* the store calls the client made, each with what it did

vars == <<atoms, defaultStore, calls>>

Null == [tag |-> "null", n |-> 0, name |-> ""]

Call(op, a, arg, l, eff) ==
    [op |-> op, atom |-> a, arg |-> arg, listener |-> l,
     outcome |-> eff.outcome, reads |-> eff.reads, notified |-> eff.notified]

Init ==
    /\ atoms = <<>>
    /\ defaultStore = Null
    /\ calls = <<>>

\* The values the client passes to atom(): as `read` an initial value or a
\* read function, as `write` nothing or a write function.  A function closes
\* over atoms that exist already.
ReadArgs == {Num(0)}
            \cup {Fn(f) : f \in {g \in ReadFns : \A i \in FnRefs(g) : i <= Len(atoms)}}

WriteArgs == {Undefined}
             \cup {Fn(f) : f \in {g \in WriteFns : \A i \in WriteRefs(g) : i <= Len(atoms)}}

\* const a = atom(read, write)
AtomCall(read, write) ==
    /\ Len(atoms) < MaxAtoms
    /\ atoms' = Append(atoms, atom(read, write))
    /\ UNCHANGED <<defaultStore, calls>>

\* createStore()
CreateStoreCall ==
    /\ Len(calls) < MaxCalls
    /\ calls' = Append(calls, Call("createStore", 0, Undefined, 0, createStore))
    /\ UNCHANGED <<atoms, defaultStore>>

\* getDefaultStore(): if (!defaultStore) defaultStore = createStore();
\* return defaultStore.  createStore() throws before the assignment.
GetDefaultStoreCall ==
    /\ Len(calls) < MaxCalls
    /\ LET made == IF defaultStore = Null THEN createStore
                   ELSE Effect(Returned(defaultStore))
       IN  /\ defaultStore' = IF made.outcome.status = "returned"
                              THEN made.outcome.value ELSE defaultStore
           /\ calls' = Append(calls, Call("getDefaultStore", 0, Undefined, 0, made))
    /\ UNCHANGED atoms

\* store.get(a)
GetCall(a) ==
    /\ Len(calls) < MaxCalls
    /\ a \in 1..Len(atoms)
    /\ calls' = Append(calls, Call("get", a, Undefined, 0, StoreGet(a)))
    /\ UNCHANGED <<atoms, defaultStore>>

\* store.set(a, arg), on an atom that has a write function
SetCall(a, arg) ==
    /\ Len(calls) < MaxCalls
    /\ a \in 1..Len(atoms)
    /\ atoms[a].hasWrite
    /\ calls' = Append(calls, Call("set", a, arg, 0, StoreSet(a, arg)))
    /\ UNCHANGED <<atoms, defaultStore>>

\* store.subscribe(a, l)
SubscribeCall(a, l) ==
    /\ Len(calls) < MaxCalls
    /\ a \in 1..Len(atoms)
    /\ calls' = Append(calls, Call("subscribe", a, Undefined, l, StoreSubscribe(a, l)))
    /\ UNCHANGED <<atoms, defaultStore>>

SetArgs == {Num(v) : v \in 0..MaxVal}

Next ==
    \/ \E read \in ReadArgs, write \in WriteArgs : AtomCall(read, write)
    \/ CreateStoreCall
    \/ GetDefaultStoreCall
    \/ \E a \in AtomIds : GetCall(a)
    \/ \E a \in AtomIds, arg \in SetArgs : SetCall(a, arg)
    \/ \E a \in AtomIds, l \in Listeners : SubscribeCall(a, l)

Spec == Init /\ [][Next]_vars

(***************************************************************************)
(* The same API driven by a client whose read and write functions throw,   *)
(* close a cycle or read after writing: the programs of the error paths.   *)
(* They are small: three atoms, and get and set calls only.                *)
(***************************************************************************)
MaxHardAtoms == 3

HardReadArgs ==
    {Num(0)}
    \cup {Fn(f) : f \in {g \in HardReadFns :
                            \A i \in FnRefs(g) \ ForwardRefs(g) : i <= Len(atoms)}}

HardWriteArgs ==
    {Undefined}
    \cup {Fn(f) : f \in {g \in HardWriteFns : \A i \in WriteRefs(g) : i <= Len(atoms)}}

\* const a = atom(read, write)
HardAtomCall(read, write) ==
    /\ Len(atoms) < MaxHardAtoms
    /\ AtomCall(read, write)

\* The arguments of set: a value, or an updater function.
HardSetArgs == SetArgs \cup {Fn(f) : f \in UpdaterFns}

HardNext ==
    \/ \E read \in HardReadArgs, write \in HardWriteArgs : HardAtomCall(read, write)
    \/ \E a \in AtomIds : GetCall(a)
    \/ \E a \in AtomIds, arg \in HardSetArgs : SetCall(a, arg)

SpecHard == Init /\ [][HardNext]_vars

(***************************************************************************)
(* The atom factory alone: a client that calls atom(x, w) with any value   *)
(* as x - nothing, null, a number, a read function, a function meant as    *)
(* an initial value - and with nothing or a write function as w, and       *)
(* keeps the arguments of each call next to the descriptor it got.         *)
(***************************************************************************)
MaxApplies == 2

AtomReadValues ==
    {Undefined, Null} \cup {Num(v) : v \in 0..MaxVal} \cup {Fn("double"), Fn("initialFn")}

AtomWriteValues == {Undefined} \cup {Fn(f) : f \in WriteFns \cup HardWriteFns}

\* const a = atom(read, write)
AtomApply(read, write) ==
    /\ Len(atoms) < MaxApplies
    /\ atoms' = Append(atoms, atom(read, write))
    /\ calls' = Append(calls, [op |-> "atom", read |-> read, write |-> write])
    /\ UNCHANGED defaultStore

AtomNext == \E read \in AtomReadValues, write \in AtomWriteValues : AtomApply(read, write)

SpecAtom == Init /\ [][AtomNext]_vars

(***************************************************************************)
(* What the store contract says of a call history h, for stating the       *)
(* claims: the value of each cell and the cells each compute reads.  They  *)
(* are defined for histories whose writes are plain writes to source       *)
(* cells (an initial value and the default write).                         *)
(***************************************************************************)
IsSource(i) == atoms[i].hasInit /\ atoms[i].write = defaultWrite
IsDerived(i) == ~atoms[i].hasInit /\ atoms[i].read.name \in ReadFns

\* Every write in h is to a source cell.
SourceWrites(h) == \A k \in 1..Len(h) : h[k].op = "set" => IsSource(h[k].atom)

\* Every write in h is a plain write: a value (no updater) to a source cell.
PlainWrites(h) ==
    \A k \in 1..Len(h) : h[k].op = "set" => IsSource(h[k].atom) /\ ~IsFunction(h[k].arg)

\* The value of source cell i after h: what the last write gave it, or init.
RECURSIVE Current(_, _)
Current(i, h) ==
    IF h = <<>> THEN atoms[i].init
    ELSE LET c == h[Len(h)]
         IN  IF c.op = "set" /\ c.atom = i THEN c.arg
             ELSE Current(i, SubSeq(h, 1, Len(h) - 1))

\* The value of cell i after h: a source cell's current value, a derived
\* cell's compute applied to the values of the cells it reads.
RECURSIVE Value(_, _)
Value(i, h) ==
    IF atoms[i].hasInit THEN Current(i, h).n
    ELSE LET get == [j \in 1..(i - 1) |-> Value(j, h)]
         IN  ReadFn(atoms[i].read.name, get)

\* The cells that cell i's compute reads, directly or through other cells.
RECURSIVE TransDeps(_, _)
TransDeps(i, h) ==
    IF atoms[i].hasInit THEN {}
    ELSE LET get == [j \in 1..(i - 1) |-> Value(j, h)]
             direct == ReadFnReads(atoms[i].read.name, get)
         IN  direct \cup UNION {TransDeps(j, h) : j \in direct}

Before(k) == SubSeq(calls, 1, k - 1)

\* Cell d was computed before call k: a get of d, or of a cell that reads it.
ComputedBefore(d, k) ==
    \E j \in 1..(k - 1) :
        /\ calls[j].op = "get"
        /\ d \in {calls[j].atom} \cup TransDeps(calls[j].atom, Before(j))

\* Call k is a plain write to source cell s that changes its value.
ChangingWrite(k) ==
    /\ calls[k].op = "set"
    /\ IsSource(calls[k].atom)
    /\ ~IsFunction(calls[k].arg)
    /\ PlainWrites(Before(k))
    /\ calls[k].arg # Current(calls[k].atom, Before(k))

SubscribedBefore(a, l, k) ==
    \E j \in 1..(k - 1) :
        calls[j].op = "subscribe" /\ calls[j].atom = a /\ calls[j].listener = l

(***************************************************************************)
(* C1.  A store.set(S, v) on a source cell S followed immediately by       *)
(* store.get(S) returns v.  (A plain write to a source cell runs no        *)
(* compute and, by the contract's error taxonomy, cannot fail.)            *)
(***************************************************************************)
C1_SetThenGetReturnsWritten ==
    \A k \in 2..Len(calls) :
        ( /\ calls[k - 1].op = "set"
          /\ IsSource(calls[k - 1].atom)
          /\ calls[k].op = "get"
          /\ calls[k].atom = calls[k - 1].atom )
        => calls[k].outcome = Returned(calls[k - 1].arg)

(***************************************************************************)
(* C2.  store.get(D) of a derived cell D returns D's compute applied to    *)
(* the current values of the cells it reads, after any sequence of writes  *)
(* to source cells (the empty sequence included), also when D reads other  *)
(* derived cells (count -> double -> quad, sum = count + double).          *)
(***************************************************************************)
C2_GetDerivedReturnsComputeOfCurrent ==
    \A k \in 1..Len(calls) :
        ( /\ calls[k].op = "get"
          /\ IsDerived(calls[k].atom)
          /\ PlainWrites(Before(k)) )
        => calls[k].outcome = Returned(Num(Value(calls[k].atom, Before(k))))

(***************************************************************************)
(* C4.  During one store.set on a source cell whose value changes, every   *)
(* previously computed cell that depends on it, directly or transitively,  *)
(* has its compute function invoked exactly once.                          *)
(***************************************************************************)
C4_DependentsRecomputedOncePerSet ==
    \A k \in 1..Len(calls) :
        ChangingWrite(k) =>
            \A d \in 1..Len(atoms) :
                ( /\ IsDerived(d)
                  /\ ComputedBefore(d, k)
                  /\ calls[k].atom \in TransDeps(d, Before(k)) )
                => calls[k].reads[d] = 1

(***************************************************************************)
(* C5.  A store.set that changes a source cell invokes each listener       *)
(* subscribed to that cell exactly once, and invokes no listener that is   *)
(* subscribed only to cells the write does not reach.                      *)
(***************************************************************************)
C5_ListenersOfChangedCellCalledOnce ==
    \A k \in 1..Len(calls) :
        ChangingWrite(k) =>
            \A l \in Listeners :
                /\ SubscribedBefore(calls[k].atom, l, k) => calls[k].notified[l] = 1
                /\ ( \A a \in 1..Len(atoms) :
                        SubscribedBefore(a, l, k) =>
                            /\ a # calls[k].atom
                            /\ calls[k].atom \notin TransDeps(a, Before(k)) )
                   => calls[k].notified[l] = 0

(***************************************************************************)
(* C9.  For D with compute get(flag) ? get(A) : get(B), once D has been    *)
(* computed: a store.set on the cell of the branch not taken does not      *)
(* invoke D's compute; and after a write has flipped flag, a store.set     *)
(* that changes the cell of the newly taken branch invokes it once.        *)
(***************************************************************************)
Taken(h) == IF Current(CondFlag, h).n # 0 THEN CondThen ELSE CondElse
NotTaken(h) == IF Current(CondFlag, h).n # 0 THEN CondElse ELSE CondThen

FlagFlippedBefore(d, k) ==
    \E m \in 1..(k - 1) :
        /\ ComputedBefore(d, m)
        /\ calls[m].op = "set"
        /\ calls[m].atom = CondFlag
        /\ Taken(Before(m)) # Taken(Before(m + 1))

C9_OnlyTheTakenBranchTriggersRecompute ==
    \A k \in 1..Len(calls), d \in 1..Len(atoms) :
        ( /\ atoms[d].read = Fn("cond")
          /\ \A i \in {CondFlag, CondThen, CondElse} : IsSource(i)
          /\ calls[k].op = "set"
          /\ PlainWrites(Before(k))
          /\ ComputedBefore(d, k) )
        => /\ calls[k].atom = NotTaken(Before(k)) => calls[k].reads[d] = 0
           /\ ( /\ FlagFlippedBefore(d, k)
                /\ calls[k].atom = Taken(Before(k))
                /\ calls[k].arg # Current(calls[k].atom, Before(k)) )
              => calls[k].reads[d] = 1

(***************************************************************************)
(* C10.  store.subscribe(cell, listener) returns a function that removes   *)
(* exactly that listener; every listener of the cell whose function has    *)
(* not been called is still invoked when the cell changes later.  (No      *)
(* call in a history calls such a function: the histories here hold the    *)
(* store's own operations.)                                                *)
(***************************************************************************)
C10_SubscribeReturnsUnsubscribe ==
    \A k \in 1..Len(calls) :
        /\ calls[k].op = "subscribe" =>
              /\ calls[k].outcome.status = "returned"
              /\ IsFunction(calls[k].outcome.value)
        /\ ChangingWrite(k) =>
              \A l \in Listeners :
                  SubscribedBefore(calls[k].atom, l, k) => calls[k].notified[l] >= 1

(***************************************************************************)
(* C11.  A store.set on a source cell that changes the value of a derived  *)
(* cell D reading it invokes each listener subscribed to D exactly once,   *)
(* also when no store.get of D was made before the set                     *)
(* (subscribe(D, l); set(S, 5) calls l once).                              *)
(***************************************************************************)
C11_ListenerOfDerivedCalledOnce ==
    \A k \in 1..Len(calls) :
        ChangingWrite(k) =>
            \A d \in 1..Len(atoms), l \in Listeners :
                ( /\ IsDerived(d)
                  /\ calls[k].atom \in TransDeps(d, Before(k))
                  /\ Value(d, Before(k + 1)) # Value(d, Before(k))
                  /\ SubscribedBefore(d, l, k) )
                => calls[k].notified[l] = 1

(***************************************************************************)
(* C12.  Memoization: a history of N >= 1 store.get(D) calls on a derived  *)
(* cell D, with no store.set among them, invokes D's compute function      *)
(* exactly once in total.                                                  *)
(***************************************************************************)
RECURSIVE ComputeCount(_, _)
ComputeCount(d, k) == IF k = 0 THEN 0 ELSE calls[k].reads[d] + ComputeCount(d, k - 1)

C12_ConsecutiveGetsComputeOnce ==
    \A d \in 1..Len(atoms) :
        ( /\ IsDerived(d)
          /\ Len(calls) >= 1
          /\ \A k \in 1..Len(calls) : calls[k].op = "get" /\ calls[k].atom = d )
        => ComputeCount(d, Len(calls)) = 1

(***************************************************************************)
(* The error paths.  CycleError is the error the documented topological    *)
(* sort throws when it meets a cell it is still visiting.                  *)
(***************************************************************************)
CycleError == "Circular dependency detected"

\* The values of the source cells after h, as a getter; 0 for the others.
SourceGet(h) ==
    [j \in AtomIds |-> IF j <= Len(atoms) /\ atoms[j].hasInit THEN Current(j, h).n ELSE 0]

\* Cell d's compute reads source cells only.
ReadsSourcesOnly(d) ==
    /\ ~atoms[d].hasInit
    /\ \A i \in FnRefs(atoms[d].read.name) : i <= Len(atoms) /\ IsSource(i)

\* Cell d is gate, and the cell it reads once a1 is truthy depends on it:
\* that cell is quad, which reads a2 = gate, or it is gate itself.
GateClosesCycle(d) ==
    /\ atoms[d].read = Fn("gate")
    /\ IsSource(1)
    /\ \/ d = GateTarget
       \/ d = 2 /\ Len(atoms) >= GateTarget /\ atoms[GateTarget].read = Fn("quad")

(***************************************************************************)
(* C13.  Cycle detection: when a computed cell's compute comes to read a   *)
(* cell that depends on it (gate, once a write has made a1 truthy), the    *)
(* store.set that triggers the recomputation raises a CycleError to its    *)
(* caller.                                                                 *)
(***************************************************************************)
C13_SetOnCycleRaisesCycleError ==
    \A k \in 1..Len(calls), d \in 1..Len(atoms) :
        ( /\ GateClosesCycle(d)
          /\ PlainWrites(Before(k))
          /\ \E j \in 1..(k - 1) :
                /\ calls[j].op = "get" /\ calls[j].atom = d
                /\ Current(1, Before(j)).n = 0
          /\ Current(1, Before(k)).n = 0
          /\ calls[k].op = "set" /\ calls[k].atom = 1 /\ calls[k].arg.n # 0 )
        => calls[k].outcome = Threw(CycleError)

(***************************************************************************)
(* C14.  When the compute of a derived cell that has no cached value       *)
(* throws during store.get, the get raises that error to its caller and    *)
(* installs nothing: a later store.get of the cell invokes the compute     *)
(* again, and raises again.                                                *)
(***************************************************************************)
ComputeThrows(d, h) ==
    /\ ReadsSourcesOnly(d)
    /\ PlainWrites(h)
    /\ ReadFnThrows(atoms[d].read.name, SourceGet(h))

C14_ThrowingComputeIsRetried ==
    \A j \in 1..Len(calls), k \in 1..Len(calls) :
        ( /\ j < k
          /\ calls[j].op = "get" /\ calls[k].op = "get"
          /\ calls[j].atom = calls[k].atom
          /\ atoms[calls[j].atom].read = Fn("boom") )
        => /\ calls[j].outcome = Threw(Boom)
           /\ calls[k].reads[calls[k].atom] = 1
           /\ calls[k].outcome = Threw(Boom)

(***************************************************************************)
(* C15.  When a compute throws while store.set is recomputing (boomIf,     *)
(* computed while a1 was falsy, then a1 written truthy), the error is      *)
(* raised to the caller of set, and the next store.get of the failing      *)
(* cell invokes its compute again rather than returning the value cached   *)
(* before the set.                                                         *)
(***************************************************************************)
C15_FailedRecomputeIsNotServedStale ==
    \A j \in 1..Len(calls), k \in 1..Len(calls) :
        LET d == calls[j].atom
        IN  ( /\ j < k /\ k < Len(calls)
              /\ calls[j].op = "get"
              /\ atoms[d].read = Fn("boomIf")
              /\ ReadsSourcesOnly(d)
              /\ ~ComputeThrows(d, Before(j))
              /\ ChangingWrite(k) /\ calls[k].atom = 1
              /\ ~ComputeThrows(d, Before(k))
              /\ ComputeThrows(d, Before(k + 1))
              /\ calls[k + 1].op = "get" /\ calls[k + 1].atom = d )
            => /\ calls[k].outcome = Threw(Boom)
               /\ calls[k + 1].reads[d] = 1
               /\ calls[k + 1].outcome # Returned(Num(0))

(***************************************************************************)
(* C16.  After a store.get whose compute threw, a source cell that the     *)
(* failed computation does not involve keeps its value: the next           *)
(* store.get of it returns that value without error.                       *)
(***************************************************************************)
C16_FailureLeavesUnrelatedCellsValid ==
    \A k \in 1..(Len(calls) - 1) :
        LET d == calls[k].atom
            s == calls[k + 1].atom
        IN  ( /\ calls[k].op = "get"
              /\ ComputeThrows(d, Before(k))
              /\ calls[k + 1].op = "get"
              /\ IsSource(s)
              /\ \E j \in 1..(k - 1) : calls[j].op = "get" /\ calls[j].atom = s )
            => calls[k + 1].outcome = Returned(Current(s, Before(k)))

(***************************************************************************)
(* C17.  No rollback: when an update function writes source cell X and     *)
(* then throws (writeThenThrow), the write to X is kept: after the failed  *)
(* store.set, the next store.get(X) returns the written value.             *)
(***************************************************************************)
C17_NestedWriteSurvivesThrow ==
    \A k \in 1..(Len(calls) - 1) :
        ( /\ calls[k].op = "set"
          /\ WriteFnThrows(atoms[calls[k].atom].write.name)
          /\ WriteFnWrites(atoms[calls[k].atom].write.name) = {1}
          /\ ~IsFunction(calls[k].arg)
          /\ IsSource(1)
          /\ PlainWrites(Before(k))
          /\ calls[k + 1].op = "get" /\ calls[k + 1].atom = 1 )
        => calls[k + 1].outcome = Returned(calls[k].arg)

(***************************************************************************)
(* C18.  Nested-write batching: a store.set on a cell whose update         *)
(* function writes a1 and a2 (writeBoth, as upperCaseNameAtom writes       *)
(* firstNameAtom and lastNameAtom) and changes both is one invalidation    *)
(* pass: each computed cell that reads them has its compute invoked once,  *)
(* against the final state, and each listener of a cell whose value the    *)
(* pass changes is invoked once.                                           *)
(***************************************************************************)
NestedWrite(a, v) == [op |-> "set", atom |-> a, arg |-> v]

\* History h followed by the writes that writeBoth makes with argument v.
AfterWriteBoth(h, v) == h \o <<NestedWrite(1, v), NestedWrite(2, v)>>

BatchedWrite(k) ==
    /\ calls[k].op = "set"
    /\ WriteFnWrites(atoms[calls[k].atom].write.name) = {1, 2}
    /\ IsSource(1) /\ IsSource(2)
    /\ PlainWrites(Before(k))
    /\ calls[k].arg # Current(1, Before(k))
    /\ calls[k].arg # Current(2, Before(k))

C18_NestedWritesAreOnePass ==
    \A k \in 1..Len(calls) :
        BatchedWrite(k) =>
            \A d \in 1..Len(atoms) :
                ( /\ IsDerived(d)
                  /\ TransDeps(d, Before(k)) \cap {1, 2} # {} )
                => /\ ComputedBefore(d, k) => calls[k].reads[d] = 1
                   /\ \A l \in Listeners :
                        ( /\ SubscribedBefore(d, l, k)
                          /\ Value(d, AfterWriteBoth(Before(k), calls[k].arg))
                                # Value(d, Before(k)) )
                        => calls[k].notified[l] = 1

(***************************************************************************)
(* C19.  A read made by an update function after one of its own nested     *)
(* writes sees that write: store.set on a cell with writeThenRead, which   *)
(* writes v to source cell a1 and returns get(a2), returns the value of    *)
(* a2 after the write - 2 * v when a2 is the derived cell double(a1).      *)
(***************************************************************************)
C19_UpdateReadsItsOwnWrites ==
    \A k \in 1..Len(calls) :
        ( /\ calls[k].op = "set"
          /\ atoms[calls[k].atom].write = Fn("writeThenRead")
          /\ ~IsFunction(calls[k].arg)
          /\ IsSource(1)
          /\ PlainWrites(Before(k))
          /\ atoms[2].read = Fn("double") )
        => calls[k].outcome = Returned(Num(2 * calls[k].arg.n))

(***************************************************************************)
(* C23.  Lazy initialisation: a store.get of a cell that no earlier        *)
(* store.get has read is not an error - for a source cell it returns the   *)
(* initial value, or the value an earlier store.set wrote; for a derived   *)
(* cell it returns the computed value.                                     *)
(***************************************************************************)
NeverRead(a, k) == \A j \in 1..(k - 1) : ~(calls[j].op = "get" /\ calls[j].atom = a)

C23_FirstAccessInitialisesLazily ==
    \A k \in 1..Len(calls) :
        LET a == calls[k].atom
        IN  ( /\ calls[k].op = "get"
              /\ NeverRead(a, k)
              /\ PlainWrites(Before(k)) )
            => /\ IsSource(a) => calls[k].outcome = Returned(Current(a, Before(k)))
               /\ IsDerived(a) => calls[k].outcome = Returned(Num(Value(a, Before(k))))

(***************************************************************************)
(* C24.  createStore() returns a Store without throwing.                   *)
(***************************************************************************)
C24_CreateStoreReturns ==
    \A k \in 1..Len(calls) :
        calls[k].op = "createStore" => calls[k].outcome.status = "returned"

(***************************************************************************)
(* C26.  getDefaultStore() constructs the default store at most once:      *)
(* every call returns, and returns the Store instance that the first call  *)
(* created.                                                                *)
(***************************************************************************)
C26_DefaultStoreIsCreatedOnce ==
    \A k \in 1..Len(calls) :
        calls[k].op = "getDefaultStore" =>
            /\ calls[k].outcome.status = "returned"
            /\ \A j \in 1..(k - 1) :
                  calls[j].op = "getDefaultStore" => calls[j].outcome = calls[k].outcome

(***************************************************************************)
(* C31.  The descriptor atom(x, w) returns has the source-cell marker      *)
(* `init` exactly when x is not a function.  If x is a function, read = x  *)
(* and there is no init (also when the function was meant as an initial    *)
(* value); otherwise init = x and read is the default read.  Its write is  *)
(* w when w is given, the default write when w is absent and x is not a    *)
(* function, and absent when w is absent and x is a function.              *)
(***************************************************************************)
DescriptorShape(d, x, w) ==
    /\ d.hasInit <=> ~IsFunction(x)
    /\ IsFunction(x) => d.read = x
    /\ ~IsFunction(x) => d.init = x /\ d.read = defaultRead
    /\ w # Undefined => d.hasWrite /\ d.write = w
    /\ (w = Undefined /\ ~IsFunction(x)) => d.hasWrite /\ d.write = defaultWrite
    /\ (w = Undefined /\ IsFunction(x)) => ~d.hasWrite

C31_DescriptorShape ==
    \A i \in 1..Len(atoms) :
        (Len(calls) >= i /\ calls[i].op = "atom")
        => DescriptorShape(atoms[i], calls[i].read, calls[i].write)

\* C31 witness: atom(fn) with no write, and atom(null, writeFn), were called.
C31_Witness ==
    /\ Len(atoms) = 2 /\ Len(calls) = 2
    /\ calls[1] = [op |-> "atom", read |-> Fn("initialFn"), write |-> Undefined]
    /\ ~atoms[1].hasInit /\ ~atoms[1].hasWrite
    /\ calls[2] = [op |-> "atom", read |-> Null, write |-> Fn("writeBoth")]
    /\ atoms[2].hasInit /\ atoms[2].write = Fn("writeBoth")

(***************************************************************************)
(* C32.  Default write of a primitive atom P: store.set(P, v) with a       *)
(* non-function v makes P's value v, and store.set(P, f) with a function   *)
(* f makes it f(current value of P); a store.get(P) after such writes      *)
(* returns the result, so k successive set(P, c => c + 1) raise it by k.   *)
(***************************************************************************)
\* The value of source cell i after the writes of h, each through defaultWrite.
RECURSIVE Stored(_, _)
Stored(i, h) ==
    IF h = <<>> THEN atoms[i].init
    ELSE LET c == h[Len(h)]
             prev == Stored(i, SubSeq(h, 1, Len(h) - 1))
         IN  IF c.op = "set" /\ c.atom = i THEN defaultWriteValue(c.arg, prev) ELSE prev

C32_DefaultWriteAppliesUpdater ==
    \A k \in 1..Len(calls) :
        LET p == calls[k].atom
        IN  ( /\ calls[k].op = "get"
              /\ IsSource(p)
              /\ SourceWrites(Before(k))
              /\ \E j \in 1..(k - 1) : calls[j].op = "set" /\ calls[j].atom = p )
            => calls[k].outcome = Returned(Stored(p, Before(k)))

(***************************************************************************)
(* C33.  Reading or writing a primitive atom is not circular: store.get    *)
(* and store.set on a primitive atom terminate - they return or raise -    *)
(* and do not invoke the atom's read function on the way.                  *)
(***************************************************************************)
Terminated(c) == c.outcome.status \in {"returned", "threw"}

C37_ListenerOfTwoCellsCalledOnce ==
    \A k \in 1..Len(calls), d \in 1..Len(atoms), l \in Listeners :
        ( /\ ChangingWrite(k)
          /\ IsDerived(d)
          /\ calls[k].atom \in TransDeps(d, Before(k))
          /\ Value(d, Before(k + 1)) # Value(d, Before(k))
          /\ SubscribedBefore(calls[k].atom, l, k)
          /\ SubscribedBefore(d, l, k) )
        => calls[k].notified[l] = 1

====
